---- MODULE Spec2Model ----
(***************************************************************************)
(* Model of SEIR+.py: the extended SEIR compartment model, its binomial    *)
(* likelihood objective, the optimizer driver and the sensitivity sweep.   *)
(*                                                                         *)
(* Numbers.  Compartments and counts are integers (persons).  The ten      *)
(* rate parameters are fixed-point numerators over Milli (0.765 is 765).   *)
(* Every product "rate * compartment" is rounded once (floor) to a whole   *)
(* number of persons, and the integrator behind predict() is modelled as   *)
(* one explicit step per day.  Python indexing is 0-based: At(seq, i) is   *)
(* seq[i] of the source, negative indices wrapping as in Python.           *)
(***************************************************************************)
EXTENDS Integers, Sequences, FiniteSets, TLC

VARIABLES params, cobyla, LBFGSB, auto, dataset, fields, ret, nk0, nn0, nk, nn, npass

vars == <<params, cobyla, LBFGSB, auto, dataset, fields, ret, nk0, nn0, nk, nn, npass>>

-----------------------------------------------------------------------------
(* Bounds of the model *)

MaxDays == 3

MaxCount == 5

MaxShift == 2

-----------------------------------------------------------------------------
(* Program constants *)

Milli == 1000

NaN == 0 - 1000000000

DefaultPrm == <<300, 800, 150, 50, 200, 100, 100, 300, 765, 750>>

bds == << <<100, 900>>, <<200, 1000>>, <<100, 250>>, <<10, 500>>, <<10, 400>>,
          <<10, 400>>, <<10, 500>>, <<10, 400>>, <<700, 850>>, <<500, 1000>> >>

Population == 1000000

overflow == 0 - 1000

b_s == <<6, 2, 6, 2, 4, 4>>

smoothing == FALSE

range_size == 50

-----------------------------------------------------------------------------
(* Python helpers *)

At(seq, i) == IF i < 0 THEN seq[Len(seq) + i + 1] ELSE seq[i + 1]

IsNaN(x) == x = NaN

Lt(a, b) == ~IsNaN(a) /\ ~IsNaN(b) /\ a < b

Gt(a, b) == ~IsNaN(a) /\ ~IsNaN(b) /\ a > b

Neg(a) == IF IsNaN(a) THEN NaN ELSE 0 - a

Add(a, b) == IF IsNaN(a) \/ IsNaN(b) THEN NaN ELSE a + b

Mul(a, b) == IF IsNaN(a) \/ IsNaN(b) THEN NaN ELSE a * b

Around(num, den) ==
    LET q == num \div den
        r == num % den
    IN  IF 2 * r < den THEN q
        ELSE IF 2 * r > den THEN q + 1
        ELSE IF q % 2 = 0 THEN q ELSE q + 1

Rate(p, x) == (p * x) \div Milli

-----------------------------------------------------------------------------
(* SEIR.get_parameters, SEIR.get_initial_state *)

get_parameters == params

get_initial_state ==
    LET I_0 == At(At(dataset, 0), 1)
        H_0 == At(At(dataset, 0), 3)
        E_0 == I_0
        D_0 == 0
        C_0 == 0
        S_0 == Population - I_0 - H_0 - E_0
        R_0 == 0
        CT_0 == I_0
        CH_0 == H_0
    IN  <<S_0, E_0, I_0, R_0, H_0, C_0, D_0, CT_0, CH_0>>

-----------------------------------------------------------------------------
(* SEIR.differential *)

Force(beta, S, I, N) ==
    LET bS == beta * S
        q  == bS \div Milli
        r  == bS % Milli
    IN  (q * I + ((r * I) \div Milli)) \div N

MixingPopulation_withoutD(state) ==
    LET S == state[1]  E == state[2]  I == state[3]  R == state[4]
        H == state[5]  C == state[6]
    IN  S + I + E + R + H + C

MixingPopulation(state) ==
    LET S == state[1]  E == state[2]  I == state[3]  R == state[4]
        H == state[5]  C == state[6]  D == state[7]
    IN  S + I + E + R + H + C + D

differential_leak(state, prm) ==
    LET S == state[1]  E == state[2]  I == state[3]  R == state[4]
        H == state[5]  C == state[6]  D == state[7]
        beta == At(prm, 0)  sigma == At(prm, 1)  gamma == At(prm, 2)
        hp == At(prm, 3)    hcr == At(prm, 4)    pc == At(prm, 5)
        pd == At(prm, 6)    pcr == At(prm, 7)
        dS == 0 - Force(beta, S, I, MixingPopulation(state))
        dE == Force(beta, S, I, MixingPopulation(state)) - Rate(sigma, E)
        dI == Rate(sigma, E) - Rate(gamma, I) - Rate(hp, I)
        dH == Rate(hp, I) - Rate(hcr, H) - Rate(pc, H)
        dC == Rate(pc, H) - Rate(pd, C) - Rate(pcr, C)
        dD == Rate(pcr, C)
        dR == Rate(gamma, I) + Rate(hcr, H) + Rate(pcr, C)
        dCT == Rate(sigma, E)
        dCH == Rate(hp, I)
    IN  <<dS, dE, dI, dR, dH, dC, dD, dCT, dCH>>

differential(state, prm) ==
    LET S == state[1]  E == state[2]  I == state[3]  R == state[4]
        H == state[5]  C == state[6]  D == state[7]
        beta == At(prm, 0)  sigma == At(prm, 1)  gamma == At(prm, 2)
        hp == At(prm, 3)    hcr == At(prm, 4)    pc == At(prm, 5)
        pd == At(prm, 6)    pcr == At(prm, 7)
        dS == 0 - Force(beta, S, I, MixingPopulation(state))
        dE == Force(beta, S, I, MixingPopulation(state)) - Rate(sigma, E)
        dI == Rate(sigma, E) - Rate(gamma, I) - Rate(hp, I)
        dH == Rate(hp, I) - Rate(hcr, H) - Rate(pc, H)
        dC == Rate(pc, H) - Rate(pd, C) - Rate(pcr, C)
        dD == Rate(pd, C)
        dR == Rate(gamma, I) + Rate(hcr, H) + Rate(pcr, C)
        dCT == Rate(sigma, E)
        dCH == Rate(hp, I)
    IN  <<dS, dE, dI, dR, dH, dC, dD, dCT, dCH>>

-----------------------------------------------------------------------------
(* SEIR.predict *)

Step(state, prm) ==
    LET d == differential(state, prm)
    IN  <<state[1] + d[1], state[2] + d[2], state[3] + d[3], state[4] + d[4],
          state[5] + d[5], state[6] + d[6], state[7] + d[7], state[8] + d[8],
          state[9] + d[9]>>

RECURSIVE odeint(_, _, _)
odeint(y0, duration, prm) ==
    IF duration = 1 THEN <<y0>>
    ELSE LET prev == odeint(y0, duration - 1, prm)
         IN  Append(prev, Step(prev[Len(prev)], prm))

predict(duration, initial_state, parameters) ==
    LET prm  == IF parameters = <<>> THEN get_parameters ELSE parameters
        init == IF initial_state = <<>> THEN get_initial_state ELSE initial_state
    IN  IF Len(prm) # 10
        THEN [raised |-> TRUE, rows |-> <<>>]
        ELSE [raised |-> FALSE, rows |-> odeint(init, duration, prm)]

-----------------------------------------------------------------------------
(* SEIR.objective, method_1 *)

RECURSIVE UncumulLoop(_, _, _)
UncumulLoop(pred, i, conta) ==
    IF i >= Len(pred) THEN conta
    ELSE UncumulLoop(pred, i + 1,
                     Append(conta, At(At(pred, i), 7) - At(At(pred, i - 1), 7)))

Uncumul(pred) == UncumulLoop(pred, 0, <<At(At(pred, 0), 7)>>)

Normalize_noSwap(k, n) ==
    LET a == IF Lt(k, 0) /\ Lt(n, 0) THEN <<Neg(k), Neg(n)>> ELSE <<k, n>>
    IN  IF Lt(a[1], 0) THEN <<1, Add(a[2], 1 + 1)>> ELSE a

Normalize_noInflate(k, n) ==
    LET a == IF Lt(k, 0) /\ Lt(n, 0) THEN <<Neg(k), Neg(n)>> ELSE <<k, n>>
        b == IF Gt(a[1], a[2]) THEN <<a[2], a[1]>> ELSE a
    IN  IF Lt(b[1], 0) THEN <<1, b[2]>> ELSE b

Normalize(k, n) ==
    LET a == IF Lt(k, 0) /\ Lt(n, 0) THEN <<Neg(k), Neg(n)>> ELSE <<k, n>>
        b == IF Gt(a[1], a[2]) THEN <<a[2], a[1]>> ELSE a
    IN  IF Lt(b[1], 0) THEN <<1, Add(b[2], 1 + 1)>> ELSE b

BinomPmf(k, n, m) ==
    IF IsNaN(k) \/ IsNaN(n) \/ n < 0 \/ m < 1 THEN "nan"
    ELSE IF k < 0 \/ k > n \/ (m = 1 /\ k < n) THEN "zero"
    ELSE "pos"

Log(prob, k, n) ==
    IF prob = "pos" THEN [kind |-> "log", k |-> k, n |-> n, val |-> 0]
    ELSE IF prob = "zero" THEN [kind |-> "neginf", k |-> k, n |-> n, val |-> 0]
    ELSE [kind |-> "nan", k |-> k, n |-> n, val |-> 0]

LogLik_unguarded(prob, k, n) == Log(prob, k, n)

LogLik(prob, k, n) ==
    IF prob = "pos" THEN Log(prob, k, n)
    ELSE [kind |-> "floor", k |-> k, n |-> n, val |-> overflow]

Channel(k0, n0, m) ==
    LET kn == Normalize(k0, n0)
        k  == kn[1]
        n  == Mul(kn[2], m)
    IN  LogLik(BinomPmf(k, n, m), k, n)

Observed(prm, pred, conta, i) ==
    LET pa == At(prm, 8) * At(prm, 9)
    IN  << <<At(At(dataset, i), 7), Around(At(At(pred, i), 7) * pa, Milli * Milli)>>,
           <<At(At(dataset, i), 1), Around(At(conta, i) * pa, Milli * Milli)>>,
           <<At(At(dataset, i), 3), Around(At(At(pred, i), 4), 1)>>,
           <<At(At(dataset, i), 4), Around(At(At(pred, i), 8), 1)>>,
           <<At(At(dataset, i), 5), Around(At(At(pred, i), 5), 1)>>,
           <<At(At(dataset, i), 6), Around(At(At(pred, i), 6), 1)>> >>

objective(parameters) ==
    LET pr    == predict(Len(dataset), <<>>, parameters)
        pred  == pr.rows
        conta == Uncumul(pred)
    IN  [pred  |-> pred,
         conta |-> conta,
         terms |-> [i \in 1..Len(pred) |->
                     LET kn == Observed(parameters, pred, conta, i - 1)
                     IN  [c \in 1..6 |-> Channel(kn[c][1], kn[c][2], b_s[c])]]]

-----------------------------------------------------------------------------
(* SEIR.fit: the optimizer call and the parameters it may hand back *)

Clamp(x, i) ==
    IF x[i] < bds[i][1] THEN bds[i][1]
    ELSE IF x[i] > bds[i][2] THEN bds[i][2] ELSE x[i]

Clip(x) ==
    <<Clamp(x, 1), Clamp(x, 2), Clamp(x, 3), Clamp(x, 4), Clamp(x, 5),
      Clamp(x, 6), Clamp(x, 7), Clamp(x, 8), Clamp(x, 9), Clamp(x, 10)>>

UpperCorner ==
    <<bds[1][2], bds[2][2], bds[3][2], bds[4][2], bds[5][2],
      bds[6][2], bds[7][2], bds[8][2], bds[9][2], bds[10][2]>>

InBounds(x) == \A i \in 1..10 : bds[i][1] <= x[i] /\ x[i] <= bds[i][2]

FitCalls_cobylaFirst(lbfgsb, cob) ==
    IF cob THEN {"COBYLA"}
    ELSE IF lbfgsb THEN {"L-BFGS-B"}
    ELSE {"auto"}

FitCalls(lbfgsb, cob) ==
    IF lbfgsb THEN {"L-BFGS-B"}
    ELSE IF cob THEN {"COBYLA"}
    ELSE {"auto"}

minimize(method, x0) ==
    IF method = "L-BFGS-B" THEN {Clip(x0), UpperCorner}
    ELSE IF method = "COBYLA"
         THEN {Clip(x0), UpperCorner, x0, [UpperCorner EXCEPT ![9] = bds[9][2] + 1]}
    ELSE {Clip(x0), UpperCorner}

-----------------------------------------------------------------------------
(* SEIR.import_dataset: the tables the CSV may hold *)

RawRow(kind, d, n) ==
    IF kind = "A"
    THEN <<d, d + 2, 10 * (d + 1), 2 * d, d * (d + 1), d, d \div 2>>
    ELSE <<d, 3 * d, 20, 50 - 10 * d, 50 + d,
           IF d = n - 1 THEN NaN ELSE 4, 1>>

RawFiles == {[d \in 1..MaxDays |-> RawRow(kind, d - 1, MaxDays)] : kind \in {"A", "B"}}

ForceFirst(raw) ==
    [i \in 1..Len(raw) |-> IF i = 1 THEN [raw[i] EXCEPT ![2] = 1] ELSE raw[i]]

CumulPositive(raw) == [i \in 1..Len(raw) |-> At(raw[i], 1)]

InsertColumn(raw, col) == [i \in 1..Len(raw) |-> Append(raw[i], col[i])]

sensib_range(j) == 100 + (j * 900) \div (range_size - 1)

-----------------------------------------------------------------------------
(* State *)

NoRet ==
    [op |-> "none", raised |-> FALSE, prm |-> <<>>, pred |-> <<>>, conta |-> <<>>,
     terms |-> <<>>, calls |-> {}, init_prm |-> <<>>, flags |-> <<>>,
     j |-> 0, grid_s |-> 0, sweep_params |-> <<>>, accuracies |-> <<>>]

Init ==
    /\ params = DefaultPrm
    /\ cobyla = TRUE
    /\ LBFGSB = FALSE
    /\ auto = FALSE
    /\ dataset = <<>>
    /\ fields = [I_0 |-> 2 * Milli, E_0 |-> 3 * Milli, R_0 |-> 0,
                 S_0 |-> (Population - 2 - 3) * Milli]
    /\ ret = NoRet
    /\ nk0 = 0 /\ nn0 = 0 /\ nk = 0 /\ nn = 0 /\ npass = 0

normvars == <<nk0, nn0, nk, nn, npass>>

(* The three strategy flags are plain attributes the caller assigns. *)
Configure ==
    /\ \E c, l, a \in BOOLEAN : cobyla' = c /\ LBFGSB' = l /\ auto' = a
    /\ UNCHANGED <<params, dataset, fields, ret, normvars>>

ImportDataset ==
    /\ ~smoothing
    /\ \E file \in RawFiles :
          LET raw == ForceFirst(file)
              ds  == InsertColumn(raw, CumulPositive(raw))
              I_0 == (At(At(ds, 0), 1) * Milli * Milli * Milli)
                        \div (At(params, 8) * At(params, 9))
              E_0 == I_0 * 5
          IN  /\ dataset' = ds
              /\ fields' = [I_0 |-> I_0, E_0 |-> E_0, R_0 |-> 0,
                            S_0 |-> Population * Milli - I_0 - E_0]
    /\ ret' = [NoRet EXCEPT !.op = "import_dataset"]
    /\ UNCHANGED <<params, cobyla, LBFGSB, auto, normvars>>

ExplicitStates ==
    { <<999995, 3, 2, 0, 0, 0, 0, 2, 0>>,
      <<1000, 50, 100, 0, 30, 20, 0, 100, 30>> }

PrmInputs == {DefaultPrm, UpperCorner}

Predict ==
    /\ \E duration \in 1..MaxDays, init \in ExplicitStates \cup {<<>>},
          prm \in PrmInputs \cup {<<>>} :
          /\ init = <<>> => dataset # <<>>
          /\ LET pr == predict(duration, init, prm)
             IN  ret' = [NoRet EXCEPT !.op = "predict", !.raised = pr.raised,
                                      !.prm = IF prm = <<>> THEN params ELSE prm,
                                      !.pred = pr.rows]
    /\ UNCHANGED <<params, cobyla, LBFGSB, auto, dataset, fields, normvars>>

Objective ==
    /\ dataset # <<>>
    /\ \E prm \in PrmInputs :
          LET o == objective(prm)
          IN  ret' = [NoRet EXCEPT !.op = "objective", !.prm = prm, !.pred = o.pred,
                                   !.conta = o.conta, !.terms = o.terms]
    /\ UNCHANGED <<params, cobyla, LBFGSB, auto, dataset, fields, normvars>>

Fit ==
    /\ dataset # <<>>
    /\ LET init_prm == params
           calls    == FitCalls(LBFGSB, cobyla)
       IN  \E method \in calls : \E x \in minimize(method, init_prm) :
             /\ params' = x
             /\ ret' = [NoRet EXCEPT !.op = "fit", !.calls = calls,
                                     !.init_prm = init_prm,
                                     !.flags = <<cobyla, LBFGSB, auto>>]
    /\ UNCHANGED <<cobyla, LBFGSB, auto, dataset, fields, normvars>>

(* sensib_finder: the first pass of the loop sets s, fits, builds the       *)
(* 4-tuple of line 445 and calls predict with it; predict raises, so the    *)
(* call ends there with nothing appended to accuracies.                     *)
SensibFinder ==
    /\ dataset # <<>>
    /\ LET j        == 0
           init_prm == [params EXCEPT ![9] = sensib_range(j)]
           calls    == FitCalls(LBFGSB, cobyla)
       IN  \E method \in calls : \E x \in minimize(method, init_prm) :
             LET sweep_params == <<x[1], x[2], x[3], x[9]>>
                 pr == predict(Len(dataset), <<>>, sweep_params)
             IN  /\ pr.raised
                 /\ params' = x
                 /\ ret' = [NoRet EXCEPT !.op = "sensib_finder", !.raised = pr.raised,
                                         !.calls = calls, !.init_prm = init_prm,
                                         !.flags = <<cobyla, LBFGSB, auto>>,
                                         !.j = j, !.grid_s = sensib_range(j),
                                         !.sweep_params = sweep_params,
                                         !.accuracies = <<>>]
    /\ UNCHANGED <<cobyla, LBFGSB, auto, dataset, fields, normvars>>

Next == Configure \/ ImportDataset \/ Predict \/ Objective \/ Fit \/ SensibFinder

Spec == Init /\ [][Next]_vars

-----------------------------------------------------------------------------
(* The normalization of (k, n) in objective(), applied pass after pass to   *)
(* every integer pair of a bounded square.                                  *)

InitNorm ==
    /\ params = DefaultPrm
    /\ cobyla = TRUE
    /\ LBFGSB = FALSE
    /\ auto = FALSE
    /\ dataset = <<>>
    /\ fields = [I_0 |-> 2 * Milli, E_0 |-> 3 * Milli, R_0 |-> 0,
                 S_0 |-> (Population - 2 - 3) * Milli]
    /\ ret = NoRet
    /\ nk0 \in (0 - MaxCount)..MaxCount
    /\ nn0 \in (0 - MaxCount)..MaxCount
    /\ nk = nk0 /\ nn = nn0 /\ npass = 0

NormalizePass ==
    /\ npass < 2
    /\ nk' = Normalize(nk, nn)[1]
    /\ nn' = Normalize(nk, nn)[2]
    /\ npass' = npass + 1
    /\ UNCHANGED <<params, cobyla, LBFGSB, auto, dataset, fields, ret, nk0, nn0>>

NextNorm == NormalizePass

SpecNorm == InitNorm /\ [][NextNorm]_vars

-----------------------------------------------------------------------------
(* Properties *)

Sum7(state) ==
    state[1] + state[2] + state[3] + state[4] + state[5] + state[6] + state[7]

Simulated == ret.op \in {"predict", "objective"} /\ ~ret.raised

(* C1: population conservation.  On every row of a simulated trajectory    *)
(* the seven derivatives dS, dE, dI, dR, dH, dC, dD add up to 0, and the    *)
(* sum S+E+I+R+H+C+D of every day equals the sum of day 0.                  *)
C1_Conservation ==
    Simulated =>
       \A i \in 1..Len(ret.pred) :
          /\ Sum7(differential(ret.pred[i], ret.prm)) = 0
          /\ Sum7(ret.pred[i]) = Sum7(ret.pred[1])

C1_Witness ==
    /\ ret.op = "predict"
    /\ Len(ret.pred) >= 3
    /\ ret.pred[3][7] > 0
    /\ ret.pred[3][1] < ret.pred[1][1]
    /\ Sum7(ret.pred[3]) = Sum7(ret.pred[1])

(* C2: in objective() the incidence used for channel 2 at step i is CT[0]  *)
(* for i = 0 and CT[i] - CT[i-1] for i > 0, never a difference with the     *)
(* last row.                                                                *)
C2_Incidence ==
    ret.op = "objective" =>
       \A i \in 0..(Len(ret.pred) - 1) :
          At(ret.conta, i) = IF i = 0 THEN At(At(ret.pred, 0), 7)
                             ELSE At(At(ret.pred, i), 7) - At(At(ret.pred, i - 1), 7)

(* C3: binomial floor.  Every one of the six terms of every step is either *)
(* the finite log of a positive pmf or the overflow floor, and it is the    *)
(* floor whenever the pmf of the normalized (k, n*m, 1/m) is zero or        *)
(* undefined; no term is -infinity or NaN.                                  *)
C3_BinomialFloor ==
    ret.op = "objective" =>
       \A i \in 1..Len(ret.terms) : \A c \in 1..6 :
          LET term == ret.terms[i][c]
          IN  /\ term.kind \in {"log", "floor"}
              /\ BinomPmf(term.k, term.n, b_s[c]) # "pos"
                    => (term.kind = "floor" /\ term.val = overflow)

C3_Witness ==
    /\ ret.op = "objective"
    /\ \E i \in 1..Len(ret.terms) : \E c \in 1..6 :
          /\ BinomPmf(ret.terms[i][c].k, ret.terms[i][c].n, b_s[c]) = "nan"
          /\ ret.terms[i][c].val = overflow

(* C4: normalization idempotence.  A second pass of the normalization over *)
(* an integer pair leaves the pair the first pass produced unchanged.       *)
C4_Idempotent == [][npass = 1 => (nk' = nk /\ nn' = nn)]_vars

C4_Witness == npass = 2 /\ nk0 < 0 /\ nn0 >= 0 /\ nk = 1 /\ nn = nn0 + 2

(* C5: bound respect.  After fit() each of the 10 stored parameters lies   *)
(* within its [min, max] interval, whatever the strategy.                   *)
C5_BoundRespect == ret.op = "fit" => InBounds(params)

RECURSIVE CumSum(_, _)
CumSum(ds, i) ==
    IF i = 0 THEN At(At(ds, 0), 1) ELSE CumSum(ds, i - 1) + At(At(ds, i), 1)

(* C6: after import_dataset() column 7 of every row i is the cumulative    *)
(* sum of column 1 over rows 0..i (row 0 of column 1 forced to 1).          *)
C6_CumulativeColumn ==
    dataset # <<>> =>
       /\ At(At(dataset, 0), 1) = 1
       /\ \A i \in 0..(Len(dataset) - 1) : At(At(dataset, i), 7) = CumSum(dataset, i)

Fitted == ret.op \in {"fit", "sensib_finder"}

FlagOf(method, flags) ==
    IF method = "COBYLA" THEN flags[1]
    ELSE IF method = "L-BFGS-B" THEN flags[2]
    ELSE flags[3]

(* C7 as stated: fit() runs exactly one strategy and it is the one whose   *)
(* flag is set; with the default flags it is COBYLA.                        *)
C7_FlagSelected ==
    Fitted =>
       /\ Cardinality(ret.calls) = 1
       /\ \A method \in ret.calls : FlagOf(method, ret.flags)
       /\ ret.flags = <<TRUE, FALSE, FALSE>> => ret.calls = {"COBYLA"}

(* C7 amended: fit() runs exactly one strategy, chosen by priority:        *)
(* L-BFGS-B when LBFGSB is set, otherwise COBYLA when cobyla is set,        *)
(* otherwise the auto strategy; the auto flag is never consulted.  With the *)
(* default flags it is COBYLA.                                              *)
C7_Priority ==
    Fitted =>
       /\ Cardinality(ret.calls) = 1
       /\ ret.flags[2] => ret.calls = {"L-BFGS-B"}
       /\ (~ret.flags[2] /\ ret.flags[1]) => ret.calls = {"COBYLA"}
       /\ (~ret.flags[2] /\ ~ret.flags[1]) => ret.calls = {"auto"}
       /\ ret.flags = <<TRUE, FALSE, FALSE>> => ret.calls = {"COBYLA"}

C7_Witness ==
    /\ ret.op = "fit"
    /\ ret.flags = <<TRUE, TRUE, TRUE>>
    /\ ret.calls = {"L-BFGS-B"}

(* C8: the sensitivity sweep runs to completion and records one error      *)
(* value per grid point.                                                    *)
C8_SweepCompletes ==
    ret.op = "sensib_finder" =>
       /\ ~ret.raised
       /\ Len(ret.accuracies) = range_size

MoveD(state, d) == [state EXCEPT ![7] = state[7] + d]

MoveRtoD(state, d) == [state EXCEPT ![4] = state[4] - d, ![7] = state[7] + d]

(* C9 as stated: the denominator excludes D, so two states that differ     *)
(* only in D yield the same dS and dE.                                      *)
C9_ExcludesD ==
    Simulated =>
       \A i \in 1..Len(ret.pred) : \A x \in 1..MaxShift :
          LET here  == differential(ret.pred[i], ret.prm)
              there == differential(MoveD(ret.pred[i], 100 * x), ret.prm)
          IN  here[1] = there[1] /\ here[2] = there[2]

(* C9 amended: the denominator is S+I+E+R+H+C+D, the dead included: two    *)
(* states with the same S, E, I, H, C and the same R+D yield the same dS    *)
(* and dE.                                                                  *)
C9_IncludesD ==
    Simulated =>
       \A i \in 1..Len(ret.pred) : \A x \in 1..MaxShift :
          LET here  == differential(ret.pred[i], ret.prm)
              there == differential(MoveRtoD(ret.pred[i], 100 * x), ret.prm)
          IN  here[1] = there[1] /\ here[2] = there[2]

C9_Witness ==
    /\ ret.op = "predict"
    /\ Len(ret.pred) >= 2
    /\ differential(ret.pred[2], ret.prm)[1] < 0
    /\ differential(MoveD(ret.pred[2], 100), ret.prm)[1]
          # differential(ret.pred[2], ret.prm)[1]
    /\ differential(MoveRtoD(ret.pred[2], 100), ret.prm)[1]
          = differential(ret.pred[2], ret.prm)[1]

(* C10: in the sweep the error of grid point j is computed with s equal to *)
(* the grid value, and the fit starts from that grid value of s.            *)
C10_SweepUsesGridS ==
    ret.op = "sensib_finder" =>
       /\ At(ret.init_prm, 8) = ret.grid_s
       /\ At(ret.sweep_params, 3) = ret.grid_s

Flipped0 == IF nk0 < 0 /\ nn0 < 0 THEN <<0 - nk0, 0 - nn0>> ELSE <<nk0, nn0>>

Low0 == IF Flipped0[1] <= Flipped0[2] THEN Flipped0[1] ELSE Flipped0[2]

High0 == IF Flipped0[1] <= Flipped0[2] THEN Flipped0[2] ELSE Flipped0[1]

(* C11: for every integer pair the normalization ends with 0 <= k <= n;    *)
(* when k is still negative after the swap it ends with k = 1 and n two     *)
(* more than it was after the swap; and with n multiplied by any of the six *)
(* smoothing factors the pmf of (k, n*m, 1/m) is defined and positive.      *)
C11_ValidDomain ==
    npass >= 1 =>
       /\ 0 <= nk /\ nk <= nn
       /\ Low0 < 0 => (nk = 1 /\ nn = High0 + 2)
       /\ Low0 >= 0 => (nk = Low0 /\ nn = High0)
       /\ \A c \in 1..6 :
             /\ b_s[c] >= 1
             /\ nk <= nn * b_s[c]
             /\ BinomPmf(nk, nn * b_s[c], b_s[c]) = "pos"

C11_Witness ==
    /\ npass = 1
    /\ nk0 > 0 /\ nn0 < 0
    /\ nk = 1 /\ nn = nk0 + 2
    /\ BinomPmf(nk, nn * b_s[2], b_s[2]) = "pos"

====
